---------------------------- MODULE Spec2Model ----------------------------
(***************************************************************************)
(* Model of the sampler-get / sampler-set slash commands of index.js.      *)
(*                                                                         *)
(* Strings are sequences of one-character strings, so that trim,           *)
(* toLowerCase, String.prototype.replace, parseFloat and String(number)    *)
(* are computed character by character.  Numbers are fixed-point: a finite *)
(* number x is the integer x * Unit (FracDigits decimal digits), one digit *)
(* more than roundToPrecision keeps, so that rounding is observable.       *)
(*                                                                         *)
(* Intermediate values are handed on as operator parameters rather than    *)
(* named in LET, which keeps TLC's evaluation of the nested string         *)
(* functions cheap.                                                        *)
(***************************************************************************)
EXTENDS Integers, Sequences, FiniteSets, TLC

VARIABLES
    leftPanel,    \* document.getElementById('left-nav-panel'): found or not, and the element
    controls,     \* the <input> elements under the panel, in document order
    dispatched,   \* events dispatched by the most recent callback invocation
    last          \* the most recent callback invocation and its outcome

vars == <<leftPanel, controls, dispatched, last>>

---------------------------------------------------------------------------
(* Bounds of the model. *)

\* Largest number of <input> elements under the panel, in the command
\* specification and in the enumeration specification.
MaxControls == 2

MaxEnumControls == 2

\* Number of decimal digits a fixed-point number keeps.
FracDigits == 5

\* Fixed-point unit: a finite number x is represented by x * Unit.
Unit == 10 ^ FracDigits

---------------------------------------------------------------------------
(* JavaScript strings. *)

WhiteSpace == {" ", "\t", "\n"}

Digits == <<"0", "1", "2", "3", "4", "5", "6", "7", "8", "9">>

LowerOf ==
    [A |-> "a", B |-> "b", C |-> "c", D |-> "d", E |-> "e", F |-> "f",
     G |-> "g", H |-> "h", I |-> "i", J |-> "j", K |-> "k", L |-> "l",
     M |-> "m", N |-> "n", O |-> "o", P |-> "p", Q |-> "q", R |-> "r",
     S |-> "s", T |-> "t", U |-> "u", V |-> "v", W |-> "w", X |-> "x",
     Y |-> "y", Z |-> "z"]

IsUpper(c) == c \in DOMAIN LowerOf

LowerChar(c) == IF IsUpper(c) THEN LowerOf[c] ELSE c

\* String.prototype.toLowerCase
toLowerCase(s) == [i \in 1..Len(s) |-> LowerChar(s[i])]

RECURSIVE TrimStart(_)
TrimStart(s) ==
    IF s # <<>> /\ Head(s) \in WhiteSpace THEN TrimStart(Tail(s)) ELSE s

RECURSIVE TrimEnd(_)
TrimEnd(s) ==
    IF s # <<>> /\ s[Len(s)] \in WhiteSpace
    THEN TrimEnd(SubSeq(s, 1, Len(s) - 1))
    ELSE s

\* String.prototype.trim
trim(s) == TrimEnd(TrimStart(s))

\* A string is truthy when it is not empty.
Truthy(s) == s # <<>>

StartsWith(s, pat) ==
    Len(pat) <= Len(s) /\ SubSeq(s, 1, Len(pat)) = pat

\* The least element of a set of numbers, 0 for the empty set.
LeastOrZero(hits) ==
    IF hits = {} THEN 0 ELSE CHOOSE i \in hits : \A j \in hits : i <= j

\* String.prototype.indexOf, counted from 1: the position of the first
\* occurrence of pat in s, 0 when there is none.
IndexOf(s, pat) ==
    LeastOrZero({i \in 1..(Len(s) - Len(pat) + 1) :
                     SubSeq(s, i, i + Len(pat) - 1) = pat})

\* s without the n characters from position i on; s itself when i is 0.
RemoveAt(s, i, n) ==
    IF i = 0 THEN s ELSE SubSeq(s, 1, i - 1) \o SubSeq(s, i + n, Len(s))

\* String.prototype.replace(pat, '') with a string pattern: the first
\* occurrence only, wherever it is.
replace(s, pat) == RemoveAt(s, IndexOf(s, pat), Len(pat))

---------------------------------------------------------------------------
(* JavaScript numbers: NaN, the two infinities, and finite fixed-point      *)
(* numbers [k |-> "fin", n |-> x * Unit].                                   *)

NaN == [k |-> "nan", n |-> 0]
PosInf == [k |-> "pinf", n |-> 0]
NegInf == [k |-> "ninf", n |-> 0]
Fin(n) == [k |-> "fin", n |-> n]

isNaN(x) == x.k = "nan"
isFinite(x) == x.k = "fin"

\* x <= y for numbers that are not NaN.
NumLeq(x, y) ==
    \/ x.k = "ninf"
    \/ y.k = "pinf"
    \/ x.k = "fin" /\ y.k = "fin" /\ x.n <= y.n

\* Math.max and Math.min of two numbers: NaN when either is NaN.
MathMax(x, y) ==
    IF isNaN(x) \/ isNaN(y) THEN NaN ELSE IF NumLeq(x, y) THEN y ELSE x

MathMin(x, y) ==
    IF isNaN(x) \/ isNaN(y) THEN NaN ELSE IF NumLeq(x, y) THEN x ELSE y

IsDigit(c) == \E d \in 1..10 : Digits[d] = c

DigitVal(c) == (CHOOSE d \in 1..10 : Digits[d] = c) - 1

RECURSIVE DigitPrefixLen(_)
DigitPrefixLen(s) ==
    IF s # <<>> /\ IsDigit(Head(s)) THEN 1 + DigitPrefixLen(Tail(s)) ELSE 0

RECURSIVE DigitsToInt(_)
DigitsToInt(ds) ==
    IF ds = <<>> THEN 0
    ELSE 10 * DigitsToInt(SubSeq(ds, 1, Len(ds) - 1)) + DigitVal(ds[Len(ds)])

\* The fraction digits fs as a multiple of 1 / Unit; digits past the
\* FracDigits-th are dropped.
FractionToInt(fs) ==
    DigitsToInt([i \in 1..FracDigits |-> IF i <= Len(fs) THEN fs[i] ELSE "0"])

\* The number with the integer digits is and the fraction digits fs, NaN
\* when there is no digit at all.
MakeNumber(neg, is, fs) ==
    IF Len(is) + Len(fs) = 0 THEN NaN
    ELSE IF neg THEN Fin(0 - (DigitsToInt(is) * Unit + FractionToInt(fs)))
    ELSE Fin(DigitsToInt(is) * Unit + FractionToInt(fs))

\* The digits after a decimal point at the head of v, none without a point.
FractionDigits(v) ==
    IF v # <<>> /\ Head(v) = "."
    THEN SubSeq(Tail(v), 1, DigitPrefixLen(Tail(v)))
    ELSE <<>>

\* The decimal literal at the head of u, whose integer part has il digits.
ParseDecimal(neg, u, il) ==
    MakeNumber(neg, SubSeq(u, 1, il), FractionDigits(SubSeq(u, il + 1, Len(u))))

\* The unsigned part u of a numeric string.
ParseMagnitude(neg, u) ==
    IF StartsWith(u, <<"I", "n", "f", "i", "n", "i", "t", "y">>)
    THEN (IF neg THEN NegInf ELSE PosInf)
    ELSE ParseDecimal(neg, u, DigitPrefixLen(u))

\* A numeric string t without leading white space: an optional sign first.
ParseSigned(t) ==
    IF t # <<>> /\ Head(t) \in {"-", "+"}
    THEN ParseMagnitude(Head(t) = "-", Tail(t))
    ELSE ParseMagnitude(FALSE, t)

\* parseFloat: leading white space, an optional sign, then "Infinity" or a
\* decimal literal (digits, optionally a point and digits, at least one
\* digit in all); whatever follows is ignored; NaN when there is no such
\* prefix.  Exponent parts are not modelled: no input of the model has one.
parseFloat(s) == ParseSigned(TrimStart(s))

RECURSIVE IntToDigits(_)
IntToDigits(n) ==
    IF n < 10 THEN <<Digits[n + 1]>>
    ELSE IntToDigits(n \div 10) \o <<Digits[(n % 10) + 1]>>

RECURSIVE StripZeros(_)
StripZeros(ds) ==
    IF ds # <<>> /\ ds[Len(ds)] = "0"
    THEN StripZeros(SubSeq(ds, 1, Len(ds) - 1))
    ELSE ds

\* The digits ds with zeros in front, FracDigits digits in all.
PadLeft(ds) == [i \in 1..(FracDigits - Len(ds)) |-> "0"] \o ds

\* The fraction part of a decimal string, empty for the fraction 0.
FractionString(fs) == IF fs = <<>> THEN <<>> ELSE <<".">> \o fs

\* The decimal string of a fixed-point number a >= 0.
DecimalString(a) ==
    IntToDigits(a \div Unit)
      \o FractionString(StripZeros(PadLeft(IntToDigits(a % Unit))))

\* String(x) for a number x (Number::toString, radix 10).
NumberToString(x) ==
    CASE x.k = "nan"  -> <<"N", "a", "N">>
      [] x.k = "pinf" -> <<"I", "n", "f", "i", "n", "i", "t", "y">>
      [] x.k = "ninf" -> <<"-", "I", "n", "f", "i", "n", "i", "t", "y">>
      [] OTHER -> IF x.n < 0 THEN <<"-">> \o DecimalString(0 - x.n)
                  ELSE DecimalString(x.n)

\* String(b) for a boolean b.
BooleanToString(b) ==
    IF b THEN <<"t", "r", "u", "e">> ELSE <<"f", "a", "l", "s", "e">>

\* Default precision of roundToPrecision (1e4).
precision == 10000

\* Math.round(n / q) * q for a fixed-point n: a half rounds up.
MathRound(n, q) == ((n + (q \div 2)) \div q) * q

\* The rounding of roundToPrecision, of the number p it re-parsed: NaN and
\* 0 become 0, an infinity stays.
RoundNumber(p) ==
    IF isNaN(p) THEN Fin(0)
    ELSE IF ~isFinite(p) THEN p
    ELSE Fin(MathRound(p.n, Unit \div precision))

\* roundToPrecision: (num = parseFloat(num + '') || 0,
\*                    Math.round((num + Number.EPSILON) * precision) / precision).
roundToPrecision(num) == RoundNumber(parseFloat(NumberToString(num)))

---------------------------------------------------------------------------
(* The live UI.  An element is a record of what the code reads from it:    *)
(* tag name, id, the range-block class, whether its computed style hides   *)
(* it, and what querySelector / textContent give inside it.  A control is   *)
(* an <input> with its attributes and the chain of its ancestors, nearest   *)
(* first; inside the panel in the state, up to <html> once attached.        *)

NoElement == [found |-> FALSE, textContent |-> <<>>]
Element(text) == [found |-> TRUE, textContent |-> text]

Node(tag, id, rangeBlock, hidden, rangeBlockTitle, small, checkboxLabel, text) ==
    [tag |-> tag, id |-> id, rangeBlock |-> rangeBlock, hidden |-> hidden,
     rangeBlockTitle |-> rangeBlockTitle, small |-> small,
     checkboxLabel |-> checkboxLabel, textContent |-> text]

PlainNode(tag, id, hidden) ==
    Node(tag, id, FALSE, hidden, NoElement, NoElement, NoElement, <<>>)

BodyNode == PlainNode("body", "", FALSE)
HtmlNode == PlainNode("html", "", FALSE)

Input(type, dataFor, id, min, max, value, checked, hidden, ancestors) ==
    [type |-> type, dataFor |-> dataFor, id |-> id, min |-> min, max |-> max,
     value |-> value, checked |-> checked, hidden |-> hidden,
     ancestors |-> ancestors]

\* element.matches(selector), for the selectors the code uses.
matches(e, selector) ==
    CASE selector = ".range-block" -> e.rangeBlock
      [] selector = "label" -> e.tag = "label"
      [] selector = "h4" -> e.tag = "h4"
      [] selector = "div" -> e.tag = "div"
      [] selector = "#openai_settings" -> e.id = "openai_settings"
      [] selector = "#ai_response_configuration" ->
            e.id = "ai_response_configuration"
      [] selector = "body" -> e.tag = "body"

\* The element at position k of a chain, null when k is 0.
ElementAt(chain, k) ==
    IF k = 0 THEN [found |-> FALSE] ELSE [found |-> TRUE, node |-> chain[k]]

\* element.closest(selector) over the ancestors of a control, for a selector
\* the <input> itself never matches: the nearest matching ancestor, or null.
closest(control, selector) ==
    ElementAt(control.ancestors,
              LeastOrZero({i \in 1..Len(control.ancestors) :
                               matches(control.ancestors[i], selector)}))

\* a || b for two elements-or-null.
OrElse(a, b) == IF a.found THEN a ELSE b

\* X instanceof HTMLElement && X.textContent.trim(), for a querySelector result.
HasText(e) == e.found /\ Truthy(trim(e.textContent))

\* Lines 32-50 of getTitleParent, for the parent element n.
TitleIn(n) ==
    IF HasText(n.rangeBlockTitle) THEN n.rangeBlockTitle
    ELSE IF HasText(n.small) THEN n.small
    ELSE IF HasText(n.checkboxLabel) THEN n.checkboxLabel
    ELSE Element(n.textContent)

\* Lines 28-50 of getTitleParent, for the result of the closest() chain.
TitleOf(parent) == IF ~parent.found THEN NoElement ELSE TitleIn(parent.node)

\* getTitleParent: the element holding the title of a control, or null.
getTitleParent(element) ==
    TitleOf(OrElse(closest(element, ".range-block"),
                   OrElse(closest(element, "label"),
                          OrElse(closest(element, "h4"),
                                 closest(element, "div")))))

\* style.display === 'none' || style.visibility === 'hidden' ||
\* style.opacity === '0', of the computed style of one element.
IsHidden(e) == e.hidden

\* A fault: a walk that looks at the parent of the control and no further.
WalkVisibleParentOnly(chain, i, stopAtSelector) ==
    i > Len(chain) \/ matches(chain[i], stopAtSelector) \/ ~IsHidden(chain[i])

\* The loop of hasVisibleAncestor over the ancestors of the control: it
\* stops at the first element matching the selector without testing it, and
\* says false at the first hidden element before that.
RECURSIVE WalkVisible(_, _, _)
WalkVisible(chain, i, stopAtSelector) ==
    IF i > Len(chain) \/ matches(chain[i], stopAtSelector) THEN TRUE
    ELSE IF IsHidden(chain[i]) THEN FALSE
    ELSE WalkVisible(chain, i + 1, stopAtSelector)

\* hasVisibleAncestor(element, stopAtSelector), for an <input> (which matches
\* no selector the code stops at).
hasVisibleAncestor(element, stopAtSelector) ==
    IF IsHidden(element) THEN FALSE
    ELSE WalkVisible(element.ancestors, 1, stopAtSelector)

\* The tokens sanitizeId strips, in the order it strips them.
StripTokens ==
    << <<"_", "c", "o", "u", "n", "t", "e", "r">>,
       <<"_", "t", "e", "x", "t", "g", "e", "n", "e", "r", "a", "t", "i", "o", "n",
         "w", "e", "b", "u", "i">>,
       <<"_", "o", "p", "e", "n", "a", "i">>,
       <<"_", "n", "o", "v", "e", "l">>,
       <<"o", "p", "e", "n", "a", "i", "_">>,
       <<"o", "a", "i", "_">> >>

RECURSIVE StripFrom(_, _)
StripFrom(id, k) ==
    IF k > Len(StripTokens) THEN id
    ELSE StripFrom(replace(id, StripTokens[k]), k + 1)

sanitizeId(id) == StripFrom(id, 1)

isVisible(e) == hasVisibleAncestor(e, "#ai_response_configuration")

\* The selector of querySelectorAll.
IsSelected(control) ==
    \/ control.type = "range"
    \/ control.type = "checkbox"
    \/ control.type = "number" /\ ~control.dataFor

\* getTitleParent(control)?.textContent?.trim(); undefined is the empty
\* string here, as falsy as it at line 110, its one use.
TitleText(title) == IF title.found THEN trim(title.textContent) ELSE <<>>

\* The sampler object of lines 99-108 for the control at position i.
Sampler(control, i) ==
    [id      |-> sanitizeId(control.id),
     name    |-> TitleText(getTitleParent(control)),
     max     |-> roundToPrecision(parseFloat(control.max)),
     min     |-> roundToPrecision(parseFloat(control.min)),
     value   |-> roundToPrecision(parseFloat(control.value)),
     checked |-> control.checked,
     type    |-> control.type,
     control |-> i]

\* Lines 110-114: what the loop body pushes for a sampler.
Pushed(sampler) ==
    IF ~Truthy(sampler.id) \/ ~Truthy(sampler.name) THEN <<>> ELSE <<sampler>>

\* A fault: a loop body without the #openai_settings exclusion of line 93.
LoopBodyNoExclusion(control, i) == Pushed(Sampler(control, i))

\* Lines 88-114: the loop body for the control at position i.
LoopBody(control, i) ==
    IF closest(control, "#openai_settings").found THEN <<>>
    ELSE Pushed(Sampler(control, i))

\* Lines 81-115: the loop over the visible selected controls.
RECURSIVE EnumerateFrom(_, _)
EnumerateFrom(ctrls, i) ==
    IF i > Len(ctrls) THEN <<>>
    ELSE (IF IsSelected(ctrls[i]) /\ isVisible(ctrls[i])
          THEN LoopBody(ctrls[i], i)
          ELSE <<>>)
           \o EnumerateFrom(ctrls, i + 1)

\* A control with its whole ancestor chain: its ancestors inside the panel,
\* then the panel, <body> and <html>.
Attached(panel, control) ==
    [control EXCEPT !.ancestors = @ \o <<panel.node, BodyNode, HtmlNode>>]

\* enumerateSamplerParameters
enumerateSamplerParameters(panel, ctrls) ==
    IF ~panel.found THEN <<>>
    ELSE EnumerateFrom([i \in 1..Len(ctrls) |-> Attached(panel, ctrls[i])], 1)

---------------------------------------------------------------------------
(* The suggestion list (enumProvider). *)

\* Collation order of the characters the model uses: String.prototype.
\* localeCompare compares letters without regard to case first (white space
\* and punctuation before digits before letters) and puts the lower-case
\* letter first when that leaves a tie.
Collation ==
    <<" ", "_", "0", "1", "2", "3", "4", "5", "6", "7", "8", "9",
      "a", "b", "c", "d", "e", "f", "g", "h", "i", "j", "k", "l", "m",
      "n", "o", "p", "q", "r", "s", "t", "u", "v", "w", "x", "y", "z">>

\* The comparison key of a character: its place in the collation order, or
\* at the case level 0 for a lower-case and 1 for an upper-case letter.
Key(c, caseLevel) ==
    IF caseLevel THEN (IF IsUpper(c) THEN 1 ELSE 0)
    ELSE LeastOrZero({i \in 1..Len(Collation) : Collation[i] = LowerChar(c)})

\* Sign of the comparison of a and b by the keys of their characters.
RECURSIVE CompareBy(_, _, _)
CompareBy(a, b, caseLevel) ==
    IF a = <<>> /\ b = <<>> THEN 0
    ELSE IF a = <<>> THEN 0 - 1
    ELSE IF b = <<>> THEN 1
    ELSE IF Key(Head(a), caseLevel) < Key(Head(b), caseLevel) THEN 0 - 1
    ELSE IF Key(Head(a), caseLevel) > Key(Head(b), caseLevel) THEN 1
    ELSE CompareBy(Tail(a), Tail(b), caseLevel)

\* The case level decides when the letters tie.
TieBreak(primary, a, b) ==
    IF primary # 0 THEN primary ELSE CompareBy(a, b, TRUE)

\* a.localeCompare(b)
localeCompare(a, b) == TieBreak(CompareBy(a, b, FALSE), a, b)

\* Insertion of p into the sorted list ps, after the elements it ties with.
RECURSIVE InsertByName(_, _)
InsertByName(ps, p) ==
    IF ps = <<>> THEN <<p>>
    ELSE IF localeCompare(p.name, Head(ps).name) < 0 THEN <<p>> \o ps
    ELSE <<Head(ps)>> \o InsertByName(Tail(ps), p)

\* Array.prototype.sort((a, b) => a.name.localeCompare(b.name)): stable.
RECURSIVE sortByName(_)
sortByName(ps) ==
    IF ps = <<>> THEN <<>>
    ELSE InsertByName(sortByName(SubSeq(ps, 1, Len(ps) - 1)), ps[Len(ps)])

isNumeric(p) == p.type \in {"number", "range"}

\* The SlashCommandEnumValue made for a parameter.  "=>" stands for the
\* arrow character of the label.
EnumValue(p) ==
    [value       |-> p.id,
     description |-> p.name \o <<" ", "=>", " ">>
                       \o (IF isNumeric(p)
                           THEN NumberToString(p.value) \o <<" ", "[">>
                                  \o NumberToString(p.min) \o <<".", ".">>
                                  \o NumberToString(p.max) \o <<"]">>
                           ELSE BooleanToString(p.checked)),
     type        |-> "number",
     icon        |-> IF isNumeric(p) THEN "number" ELSE "boolean"]

\* Array.prototype.map(p => new SlashCommandEnumValue(...))
MapEnumValue(ps) == [k \in 1..Len(ps) |-> EnumValue(ps[k])]

enumProvider(panel, ctrls) ==
    MapEnumValue(sortByName(enumerateSamplerParameters(panel, ctrls)))

---------------------------------------------------------------------------
(* The command callbacks.  An argument is undefined, a string, or some      *)
(* other truthy value (a number, a closure, a list).                        *)

Undefined == [t |-> "undefined", s |-> <<>>]
String(s) == [t |-> "string", s |-> s]
Object == [t |-> "object", s |-> <<>>]

\* !arg
Falsy(arg) == arg.t = "undefined" \/ (arg.t = "string" /\ arg.s = <<>>)

\* isTrueBoolean of the host's utils.js: the tokens 'on', 'true' and '1',
\* trimmed and without regard to case.
isTrueBoolean(s) ==
    toLowerCase(trim(s)) \in {<<"o", "n">>, <<"t", "r", "u", "e">>, <<"1">>}

\* The predicate of the lookup.
NameMatches(p, name) == toLowerCase(p.name) = name \/ toLowerCase(p.id) = name

\* Array.prototype.find with that predicate: the position of the first
\* parameter satisfying it, 0 when there is none.
find(params, name) ==
    LeastOrZero({k \in 1..Len(params) : NameMatches(params[k], name)})

\* The parameter at position k; found is FALSE for undefined.
ParameterAt(params, k) ==
    IF k = 0 THEN [found |-> FALSE] ELSE [found |-> TRUE, p |-> params[k]]

\* The outcome of a callback: the error thrown (or "none"), the string
\* returned, and the position of the control of the resolved parameter (0
\* when none was resolved).  An error is named by its message; the
\* not-found message stands without the name it quotes.
Outcome(err, ret, target) ==
    [err |-> err, ret |-> ret, target |-> target]

\* A fault: a lookup in the list sorted as the suggestion list is.
getParameterSorted(name, params) ==
    ParameterAt(sortByName(params),
                find(sortByName(params), toLowerCase(trim(name))))

\* Lines 141-142: the parameter sampler-get resolves among the enumerated ones.
getParameter(name, params) ==
    ParameterAt(params, find(params, toLowerCase(trim(name))))

\* A fault: a read of the numeric value whatever the kind of the control.
GetResultValue(parameter) ==
    IF ~parameter.found THEN Outcome("Parameter not found.", <<>>, 0)
    ELSE Outcome("none", NumberToString(parameter.p.value), parameter.p.control)

\* Lines 143-146 of sampler-get.
GetResult(parameter) ==
    IF ~parameter.found THEN Outcome("Parameter not found.", <<>>, 0)
    ELSE Outcome("none",
                 IF parameter.p.type = "checkbox"
                 THEN BooleanToString(parameter.p.checked)
                 ELSE NumberToString(parameter.p.value),
                 parameter.p.control)

\* The sampler-get callback; params is what its call of
\* enumerateSamplerParameters() returns.
samplerGet(name, params) ==
    IF Falsy(name) THEN Outcome("Parameter name is required.", <<>>, 0)
    ELSE IF name.t # "string"
    THEN Outcome("Parameter name must be a string.", <<>>, 0)
    ELSE GetResult(getParameter(name.s, params))

\* Lines 171-172: the parameter sampler-set resolves.
setParameter(name, params) ==
    ParameterAt(params, find(params, toLowerCase(trim(name))))

\* A fault: a clamp that forgets the lower bound.
clampNoFloor(number, parameter) == MathMin(number, parameter.max)

\* Line 190: the clamp.
clamp(number, parameter) ==
    MathMin(MathMax(number, parameter.min), parameter.max)

\* new Event('input', { bubbles: true }) dispatched on a control: what a
\* listener is handed and what it reads from the event's target.
InputEvent(ctrls, target) ==
    [type |-> "input", bubbles |-> TRUE, target |-> target,
     value |-> ctrls[target].value, checked |-> ctrls[target].checked]

\* A fault: the event dispatched before the write, so that a listener reads
\* the old state.
dispatchEventBeforeWrite(before, after, target) ==
    <<InputEvent(before, target)>>

\* Line 194: the events dispatched by a successful sampler-set, given the
\* controls before and after its write.
dispatchEvent(before, after, target) == <<InputEvent(after, target)>>

\* A sampler-set that throws: nothing written, nothing dispatched.
Throw(err, target, ctrls) ==
    [err |-> err, ret |-> <<>>, target |-> target, controls |-> ctrls,
     dispatched |-> <<>>]

\* Lines 194-195: a sampler-set that wrote.
Written(target, before, after) ==
    [err |-> "none", ret |-> <<>>, target |-> target, controls |-> after,
     dispatched |-> dispatchEvent(before, after, target)]

\* A fault: a checkbox write that turns the box on whatever the value says.
setCheckedOn(ctrls, parameter, isTrue) ==
    [ctrls EXCEPT ![parameter.control].checked = TRUE]

\* Line 184: parameter.control.checked = isTrue
setChecked(ctrls, parameter, isTrue) ==
    [ctrls EXCEPT ![parameter.control].checked = isTrue]

\* A fault: a write to every control whose sanitized id is the parameter's.
setValueEvery(ctrls, parameter, clamped) ==
    [i \in 1..Len(ctrls) |->
        IF sanitizeId(ctrls[i].id) = parameter.id
        THEN [ctrls[i] EXCEPT !.value = NumberToString(clamped)]
        ELSE ctrls[i]]

\* Line 191: parameter.control.value = String(clamped)
setValue(ctrls, parameter, clamped) ==
    [ctrls EXCEPT ![parameter.control].value = NumberToString(clamped)]

\* A fault: the write made before the number is found not to be finite.
SetNumberWriteFirst(parameter, number, ctrls) ==
    IF isNaN(number) \/ ~isFinite(number)
    THEN Throw("Value must be convertible to a finite number.",
               parameter.control,
               [ctrls EXCEPT ![parameter.control].value = NumberToString(number)])
    ELSE Written(parameter.control, ctrls,
                 [ctrls EXCEPT ![parameter.control].value =
                     NumberToString(MathMin(MathMax(number, parameter.min),
                                            parameter.max))])

\* Lines 187-191, for the parsed number.
SetNumber(parameter, number, ctrls) ==
    IF isNaN(number) \/ ~isFinite(number)
    THEN Throw("Value must be convertible to a finite number.",
               parameter.control, ctrls)
    ELSE Written(parameter.control, ctrls,
                 setValue(ctrls, parameter, clamp(number, parameter)))

\* Lines 182-195, for the resolved parameter and the value string.
SetKind(parameter, value, ctrls) ==
    IF parameter.type = "checkbox"
    THEN Written(parameter.control, ctrls,
                 setChecked(ctrls, parameter, isTrueBoolean(value)))
    ELSE SetNumber(parameter, parseFloat(value), ctrls)

\* A fault: the value examined before the lookup is known to have failed.
SetResolvedValueFirst(parameter, value, ctrls) ==
    IF Falsy(value) THEN Throw("Value is required.", 0, ctrls)
    ELSE IF value.t # "string" THEN Throw("Value must be a string.", 0, ctrls)
    ELSE IF ~parameter.found THEN Throw("Parameter not found.", 0, ctrls)
    ELSE SetKind(parameter.p, value.s, ctrls)

\* Lines 173-195, for the result of the lookup.
SetResolved(parameter, value, ctrls) ==
    IF ~parameter.found THEN Throw("Parameter not found.", 0, ctrls)
    ELSE IF Falsy(value)
    THEN Throw("Value is required.", parameter.p.control, ctrls)
    ELSE IF value.t # "string"
    THEN Throw("Value must be a string.", parameter.p.control, ctrls)
    ELSE SetKind(parameter.p, value.s, ctrls)

\* The sampler-set callback; params is what its call of
\* enumerateSamplerParameters() returns, ctrls the live controls.
samplerSet(name, value, params, ctrls) ==
    IF Falsy(name) THEN Throw("Parameter name is required.", 0, ctrls)
    ELSE IF name.t # "string"
    THEN Throw("Parameter name must be a string.", 0, ctrls)
    ELSE SetResolved(setParameter(name.s, params), value, ctrls)

---------------------------------------------------------------------------
(* The panels, controls and arguments the model draws from. *)

sTemp == <<"T", "e", "m", "p">>
sTop == <<"T", "o", "p">>
sStream == <<"S", "t", "r", "e", "a", "m">>
sSeed == <<"S", "e", "e", "d">>
sBlank == <<" ", "\n">>
idTempOpenai == <<"t", "e", "m", "p", "_", "o", "p", "e", "n", "a", "i">>
idTopNovel == <<"t", "o", "p", "_", "n", "o", "v", "e", "l">>
idTempNovel == <<"t", "e", "m", "p", "_", "n", "o", "v", "e", "l">>
\* The text inside a container of several controls.
sPanelText == <<"T", "e", "m", "p", "\n", "T", "o", "p">>
idOaiTemp == <<"o", "a", "i", "_", "t", "e", "m", "p">>
idStreamOpenai ==
    <<"s", "t", "r", "e", "a", "m", "_", "o", "p", "e", "n", "a", "i">>
idTempCounter == <<"t", "e", "m", "p", "_", "c", "o", "u", "n", "t", "e", "r">>
idOpenai == <<"o", "p", "e", "n", "a", "i", "_">>
idTopOpenaiK == <<"t", "o", "p", "_", "o", "p", "e", "n", "a", "i", "_", "k">>

\* An element around several controls: no title of its own, their text inside.
Container(tag, id, hidden) ==
    Node(tag, id, FALSE, hidden, NoElement, NoElement, NoElement, sPanelText)

NoPanel == [found |-> FALSE, node |-> PlainNode("", "", FALSE)]
PanelOpen == [found |-> TRUE, node |-> Container("div", "left-nav-panel", FALSE)]
PanelClosed == [found |-> TRUE, node |-> Container("div", "left-nav-panel", TRUE)]
PanelSection ==
    [found |-> TRUE, node |-> Container("section", "left-nav-panel", FALSE)]

\* <div class="range-block"> with a .range-block-title.
RangeBlock(title, hidden) ==
    Node("div", "", TRUE, hidden, Element(title), NoElement, NoElement, title)

\* <div class="range-block"> whose .range-block-title is blank and whose
\* <small> holds the text.
SmallBlock(text) ==
    Node("div", "", TRUE, FALSE, Element(sBlank), Element(text), NoElement,
         sBlank \o text)

\* <label> around a checkbox and its text.
LabelNode(text) ==
    Node("label", "", FALSE, FALSE, NoElement, NoElement, NoElement, text)

\* <div> holding a checkbox and a .checkbox_label.
CheckboxBlock(text) ==
    Node("div", "", FALSE, FALSE, NoElement, NoElement, Element(text), text)

Boundary(hidden) == Container("div", "ai_response_configuration", hidden)
OpenaiSettings == Container("div", "openai_settings", FALSE)
Span(hidden) == PlainNode("span", "", hidden)

\* The controls of the command specification.
CommandControls ==
    { \* a slider without a min attribute: the range [0, 2]
      Input("range", FALSE, idTempOpenai, <<>>, <<"2">>, <<"1">>, FALSE, FALSE,
            <<RangeBlock(sTop, FALSE), Boundary(FALSE)>>),
      \* a number input without a max attribute, whose min exceeds 0
      Input("number", FALSE, idTempNovel, <<"2">>, <<>>, <<"1", ".", "5">>,
            FALSE, FALSE, <<SmallBlock(sTemp), Boundary(FALSE)>>),
      \* a checkbox
      Input("checkbox", FALSE, idStreamOpenai, <<>>, <<>>, <<"o", "n">>, FALSE,
            FALSE, <<LabelNode(sStream), Boundary(FALSE)>>),
      \* a slider in a hidden block
      Input("range", FALSE, idTempOpenai, <<>>, <<"2">>, <<"1">>, FALSE, FALSE,
            <<RangeBlock(sTop, FALSE), Span(TRUE), Boundary(FALSE)>>) }

\* The controls of the enumeration specification.
EnumControls ==
    { Input("range", FALSE, idTempOpenai, <<"0">>, <<"2">>, <<"1">>, FALSE, FALSE,
            <<RangeBlock(sTemp, FALSE), Boundary(FALSE)>>),
      Input("checkbox", FALSE, idStreamOpenai, <<>>, <<>>, <<"o", "n">>, TRUE,
            FALSE, <<LabelNode(sStream), Boundary(FALSE)>>),
      Input("checkbox", FALSE, idStreamOpenai, <<>>, <<>>, <<"o", "n">>, FALSE,
            FALSE, <<CheckboxBlock(sStream), Boundary(FALSE)>>),
      Input("number", FALSE, idOaiTemp, <<"0">>, <<"1">>,
            <<"0", ".", "1", "2", "3", "4", "5">>, FALSE, FALSE,
            <<SmallBlock(sSeed), Boundary(FALSE)>>),
      \* the counter of a slider: data-for
      Input("number", TRUE, idTempCounter, <<"0">>, <<"2">>, <<"1">>, FALSE, FALSE,
            <<RangeBlock(sTemp, FALSE), Boundary(FALSE)>>),
      \* not a slider, checkbox or number input
      Input("text", FALSE, idTopNovel, <<>>, <<>>, <<"1">>, FALSE, FALSE,
            <<RangeBlock(sTop, FALSE), Boundary(FALSE)>>),
      \* hidden itself
      Input("range", FALSE, idTopNovel, <<"0">>, <<"2">>, <<"1">>, FALSE, TRUE,
            <<RangeBlock(sTop, FALSE), Boundary(FALSE)>>),
      \* hidden three levels up, below the boundary
      Input("range", FALSE, idTopNovel, <<"0">>, <<"2">>, <<"1">>, FALSE, FALSE,
            <<RangeBlock(sTop, FALSE), Span(FALSE), Span(TRUE), Boundary(FALSE)>>),
      \* the boundary container itself is hidden
      Input("range", FALSE, idTopNovel, <<"0">>, <<"2">>, <<"1">>, FALSE, FALSE,
            <<RangeBlock(sTop, FALSE), Boundary(TRUE)>>),
      \* outside the boundary container
      Input("range", FALSE, idTopOpenaiK, <<"0">>, <<"2">>, <<"1">>, FALSE, FALSE,
            <<RangeBlock(sTop, FALSE)>>),
      \* inside #openai_settings
      Input("range", FALSE, idTempOpenai, <<"0">>, <<"2">>, <<"1">>, FALSE, FALSE,
            <<RangeBlock(sTemp, FALSE), OpenaiSettings, Boundary(FALSE)>>),
      \* an id that is nothing but a stripped token
      Input("range", FALSE, idOpenai, <<"0">>, <<"2">>, <<"1">>, FALSE, FALSE,
            <<RangeBlock(sTemp, FALSE), Boundary(FALSE)>>),
      \* a blank title
      Input("range", FALSE, idTempOpenai, <<"0">>, <<"2">>, <<"1">>, FALSE, FALSE,
            <<RangeBlock(sBlank, FALSE), Boundary(FALSE)>>),
      \* no <div>, <label> or <h4> between the control and the boundary
      Input("checkbox", FALSE, idStreamOpenai, <<>>, <<>>, <<"o", "n">>, FALSE,
            FALSE, <<Span(FALSE), Boundary(FALSE)>>),
      \* nothing but a <span> between the control and the panel
      Input("checkbox", FALSE, idStreamOpenai, <<>>, <<>>, <<"o", "n">>, FALSE,
            FALSE, <<Span(FALSE)>>) }

\* The sequences over S of length at most n.
RECURSIVE SeqsUpTo(_, _)
SeqsUpTo(S, n) ==
    IF n = 0 THEN {<<>>}
    ELSE {<<>>} \cup {<<x>> \o q : x \in S, q \in SeqsUpTo(S, n - 1)}

\* The name arguments.
NameArgs ==
    { Undefined, Object, String(<<>>),
      String(<<" ", "T", "E", "M", "P", " ">>),
      String(<<"S", "t", "r", "e", "a", "m">>),
      String(<<" ">>) }

\* The value arguments.
ValueArgs ==
    { Undefined, Object,
      String(<<"5">>),
      String(<<"-", "1">>),
      String(<<" ", "0", ".", "1", "2", "3", "4", "5", "x">>),
      String(<<"a", "b", "c">>),
      String(<<"I", "n", "f", "i", "n", "i", "t", "y">>),
      String(<<" ", "O", "n">>) }

---------------------------------------------------------------------------
(* The state machine. *)

Call(cmd, name, value, out, list) ==
    [cmd |-> cmd, name |-> name, value |-> value, err |-> out.err,
     ret |-> out.ret, target |-> out.target, list |-> list]

NoCall == Call("", Undefined, Undefined, Outcome("none", <<>>, 0), <<>>)

Init ==
    /\ leftPanel \in {NoPanel, PanelOpen}
    /\ controls \in SeqsUpTo(CommandControls, MaxControls)
    /\ leftPanel.found \/ controls = <<>>
    /\ dispatched = <<>>
    /\ last = NoCall

InitEnum ==
    /\ leftPanel \in {NoPanel, PanelOpen, PanelClosed, PanelSection}
    /\ controls \in SeqsUpTo(EnumControls, MaxEnumControls)
    /\ leftPanel.found \/ controls = <<>>
    /\ dispatched = <<>>
    /\ last = NoCall

\* A sampler-get invocation whose enumeration returned params.
GetWith(params) ==
    \E name \in NameArgs :
        /\ last' = Call("sampler-get", name, Undefined,
                        samplerGet(name, params), <<>>)
        /\ dispatched' = <<>>
        /\ UNCHANGED <<leftPanel, controls>>

\* /sampler-get <name>
SamplerGet == GetWith(enumerateSamplerParameters(leftPanel, controls))

\* The state after a sampler-set whose callback came out as out.
SetStep(name, value, out) ==
    /\ controls' = out.controls
    /\ dispatched' = out.dispatched
    /\ last' = Call("sampler-set", name, value, out, <<>>)
    /\ UNCHANGED leftPanel

\* A sampler-set invocation whose enumeration returned params.
SetWith(params) ==
    \E name \in NameArgs, value \in ValueArgs :
        SetStep(name, value, samplerSet(name, value, params, controls))

\* /sampler-set name=<name> <value>
SamplerSet == SetWith(enumerateSamplerParameters(leftPanel, controls))

\* The suggestion list is asked for.
EnumProvider ==
    /\ last' = Call("enumProvider", Undefined, Undefined,
                    Outcome("none", <<>>, 0), enumProvider(leftPanel, controls))
    /\ dispatched' = <<>>
    /\ UNCHANGED <<leftPanel, controls>>

Next == SamplerGet \/ SamplerSet \/ EnumProvider

Spec == Init /\ [][Next]_vars

NextEnum == EnumProvider

SpecEnum == InitEnum /\ [][NextEnum]_vars

---------------------------------------------------------------------------
(* Properties.  They are stated over the state the callbacks leave: last is *)
(* the most recent invocation, controls the live controls after it.         *)

\* What enumerateSamplerParameters() returns in the current state.
Params == enumerateSamplerParameters(leftPanel, controls)

\* The enumerated parameter of the control at position i.
ParamOf(i) ==
    CHOOSE p \in {Params[k] : k \in 1..Len(Params)} : p.control = i

\* The controls of the parameters whose lower-cased name or id is arg.
MatchingControls(params, arg) ==
    {params[k].control :
        k \in {j \in 1..Len(params) :
                  toLowerCase(params[j].name) = arg
                  \/ toLowerCase(params[j].id) = arg}}

\* The most recent invocation was a command given a string for a name.
LookedUp ==
    last.cmd \in {"sampler-get", "sampler-set"} /\ last.name.t = "string"

\* The most recent invocation was a sampler-set that wrote.
SetDone == last.cmd = "sampler-set" /\ last.err = "none"

\* The most recent invocation was a sampler-set of a finite number on a
\* numeric control.
NumericSet ==
    /\ last.cmd = "sampler-set"
    /\ last.target # 0
    /\ last.value.t = "string"
    /\ controls[last.target].type # "checkbox"
    /\ isFinite(parseFloat(last.value.s))

InInterval(x, lo, hi) == NumLeq(lo, x) /\ NumLeq(x, hi)

\* w is n clamped into [lo, hi].
IsClampOf(w, n, lo, hi) ==
    /\ InInterval(w, lo, hi)
    /\ InInterval(n, lo, hi) => w = n
    /\ ~NumLeq(lo, n) => w = lo
    /\ ~NumLeq(n, hi) => w = hi

ClampedInto(w, n, p) == IsClampOf(w, n, p.min, p.max)

ClampedOrMax(w, n, p) ==
    IF NumLeq(p.min, p.max) THEN IsClampOf(w, n, p.min, p.max) ELSE w = p.max

\* C1 as stated: a sampler-set of a finite number n on a numeric control
\* leaves the value of the control within the enumerated range [min, max],
\* equal to n clamped into it, whatever min and max are (an absent or
\* unparsable attribute enumerates as 0, and min may exceed max).
C1_ClampedIntoRange ==
    NumericSet =>
        /\ last.err = "none"
        /\ ClampedInto(parseFloat(controls[last.target].value),
                       parseFloat(last.value.s), ParamOf(last.target))

\* C1: a sampler-set of a finite number n on a numeric control leaves the
\* value of the control equal to n clamped into the enumerated range
\* [min, max] when min <= max, and equal to max, which is then below min and
\* outside the range, when min exceeds max.
C1_ClampedOrMax ==
    NumericSet =>
        /\ last.err = "none"
        /\ ClampedOrMax(parseFloat(controls[last.target].value),
                        parseFloat(last.value.s), ParamOf(last.target))

\* 5 was set on the slider of range [0, 2], which now holds 2.
C1_Witness ==
    /\ NumericSet
    /\ last.value.s = <<"5">>
    /\ NumLeq(ParamOf(last.target).min, ParamOf(last.target).max)
    /\ controls[last.target].value = <<"2">>

\* C2: a sampler-set that raises an error changes no control and dispatches
\* no event.
C2_ErrorChangesNothing ==
    [][(last'.cmd = "sampler-set" /\ last'.err # "none")
          => (controls' = controls /\ dispatched' = <<>>)]_vars

\* A sampler-set of "abc" on a numeric control was refused.
C2_Witness ==
    /\ last.cmd = "sampler-set"
    /\ last.err = "Value must be convertible to a finite number."
    /\ last.value.s = <<"a", "b", "c">>
    /\ last.target # 0

\* The event e is a bubbling input event on the control c at position
\* target, and a listener reading c from it sees the state c has now.
ShowsNewState(e, target, c) ==
    /\ e.type = "input"
    /\ e.bubbles
    /\ e.target = target
    /\ e.value = c.value
    /\ e.checked = c.checked

\* The control c holds what the value string asked for.
Holds(c, value, p) ==
    IF c.type = "checkbox" THEN c.checked = isTrueBoolean(value)
    ELSE c.value = NumberToString(clamp(parseFloat(value), p))

\* C3: a sampler-set that succeeds dispatches exactly one event, a bubbling
\* input event on the control it wrote, and dispatches it after the write:
\* the listener sees the new state.
C3_OneInputEventAfterWrite ==
    SetDone =>
        /\ last.target # 0
        /\ Len(dispatched) = 1
        /\ ShowsNewState(dispatched[1], last.target, controls[last.target])
        /\ Holds(controls[last.target], last.value.s, ParamOf(last.target))

\* The listener of the slider set to 5 reads 2, not the 1 it held before.
C3_Witness ==
    /\ SetDone
    /\ last.value.s = <<"5">>
    /\ Len(dispatched) = 1
    /\ dispatched[1].value = <<"2">>

\* C4: the parameter a command resolves for a non-empty string name is the
\* first control in document order whose enumerated name or id is the
\* trimmed name without regard to case (none when no control matches); the
\* sorted order of the suggestion list has no part in it, and sampler-get and
\* sampler-set resolve the same control for the same name.
C4_FirstMatchInDocumentOrder ==
    (LookedUp /\ last.name.s # <<>>) =>
        last.target =
            LeastOrZero(MatchingControls(Params,
                                         toLowerCase(trim(last.name.s))))

\* Two controls match " TEMP ", the second sorts first, the first is read.
C4_Witness ==
    /\ last.cmd = "sampler-get"
    /\ last.name.s = <<" ", "T", "E", "M", "P", " ">>
    /\ Cardinality(MatchingControls(Params, <<"t", "e", "m", "p">>)) = 2
    /\ sortByName(Params)[1].control = 2
    /\ last.target = 1

\* The string name of the most recent command matches no parameter.
NoMatch ==
    /\ LookedUp
    /\ MatchingControls(Params, toLowerCase(trim(last.name.s))) = {}

\* C5 as stated: a command given a string name that matches no enumerated
\* parameter raises the not-found error.
C5_NoMatchIsNotFound == NoMatch => last.err = "Parameter not found."

\* C5: a command given a non-empty string name that matches no enumerated
\* parameter raises the not-found error, sampler-set whatever its value is;
\* without the panel nothing is enumerated, so every such name does.
C5_NonEmptyNoMatchIsNotFound ==
    /\ ~leftPanel.found => Params = <<>>
    /\ (NoMatch /\ last.name.s # <<>>) =>
           (last.err = "Parameter not found." /\ last.target = 0)

\* Without the panel, a sampler-set without a value is refused as not found.
C5_Witness ==
    /\ ~leftPanel.found
    /\ last.cmd = "sampler-set"
    /\ last.name.s = <<" ", "T", "E", "M", "P", " ">>
    /\ last.value = Undefined
    /\ last.err = "Parameter not found."

\* What sampler-get reads from the control c.
ReadOf(c) ==
    IF c.type = "checkbox" THEN BooleanToString(c.checked)
    ELSE NumberToString(roundToPrecision(parseFloat(c.value)))

Booleans == {BooleanToString(TRUE), BooleanToString(FALSE)}

\* C6: a sampler-get that succeeds returns "true" or "false", the checked
\* state, for a checkbox, and the value rounded to 4 decimal digits for a
\* slider or number input, never the one for the other.
C6_GetReadsByKind ==
    (last.cmd = "sampler-get" /\ last.err = "none") =>
        /\ last.target # 0
        /\ last.ret = ReadOf(controls[last.target])
        /\ (last.ret \in Booleans) <=> (controls[last.target].type = "checkbox")

\* A checkbox that was turned on reads "true".
C6_Witness ==
    /\ last.cmd = "sampler-get"
    /\ last.err = "none"
    /\ controls[last.target].type = "checkbox"
    /\ last.ret = BooleanToString(TRUE)

\* What sampler-get must return after the value string was set on c.
ExpectedRead(c, value, p) ==
    IF c.type = "checkbox" THEN BooleanToString(isTrueBoolean(value))
    ELSE NumberToString(roundToPrecision(clamp(parseFloat(value), p)))

\* C9: a sampler-get of a name right after a successful sampler-set of the
\* same name returns what was written: the boolean for a checkbox, the
\* clamped number rounded to 4 decimal digits for a numeric control.
C9_SetThenGet ==
    [][(SetDone /\ last'.cmd = "sampler-get" /\ last'.name = last.name)
          => /\ last'.err = "none"
             /\ last'.target = last.target
             /\ last'.ret = ExpectedRead(controls[last.target], last.value.s,
                                         ParamOf(last.target))]_vars

\* 0.12345 was set on the slider and read back as 0.1235.
C9_Witness ==
    /\ last.cmd = "sampler-get"
    /\ last.err = "none"
    /\ controls[last.target].value = <<"0", ".", "1", "2", "3", "4", "5">>
    /\ last.ret = <<"0", ".", "1", "2", "3", "5">>

\* The control after differs from before in nothing but the written field.
OnlyWritten(before, after) ==
    IF before.type = "checkbox"
    THEN after = [before EXCEPT !.checked = after.checked]
    ELSE after = [before EXCEPT !.value = after.value]

\* C10: a sampler-set that succeeds writes one control, the resolved one,
\* and of it the checked state (checkbox) or the value (numeric) only; every
\* other control, one sharing its sanitized id or its name included, is left
\* as it was.
C10_WritesOneControl ==
    [][(last'.cmd = "sampler-set" /\ last'.err = "none")
          => /\ Len(controls') = Len(controls)
             /\ last'.target \in 1..Len(controls)
             /\ \A i \in 1..Len(controls) :
                    IF i = last'.target
                    THEN OnlyWritten(controls[i], controls'[i])
                    ELSE controls'[i] = controls[i]]_vars

\* Two controls whose ids differ by a stripped token only: the first was
\* set to 2, the second still holds 1.5.
C10_Witness ==
    /\ SetDone
    /\ Len(controls) = 2
    /\ controls[1].id # controls[2].id
    /\ sanitizeId(controls[1].id) = sanitizeId(controls[2].id)
    /\ last.target = 1
    /\ controls[1].value = <<"2">>
    /\ controls[2].value = <<"1", ".", "5">>

---------------------------------------------------------------------------
(* Properties of the enumeration, for the specification SpecEnum. *)

\* The ancestors of the control at position i, nearest first, up to <html>.
AncestorsOf(i) == Attached(leftPanel, controls[i]).ancestors

\* The controls the parameters params were made for.
ControlsOf(params) == {params[k].control : k \in 1..Len(params)}

\* The controls the enumeration returns a parameter for.
EnumeratedControls == ControlsOf(Params)

\* The position of the boundary container among the ancestors, 0 when the
\* control is not inside it.
BoundaryIn(anc) ==
    LeastOrZero({j \in 1..Len(anc) : anc[j].id = "ai_response_configuration"})

\* The positions of the ancestors below the boundary container at b: all of
\* them when there is none.
Below(anc, b) == IF b = 0 THEN 1..Len(anc) ELSE 1..(b - 1)

\* The control or one of its ancestors is hidden.
HiddenAnywhere(c, anc) == c.hidden \/ \E j \in 1..Len(anc) : anc[j].hidden

\* The control or one of its ancestors below the boundary container is hidden.
HiddenBelowBoundary(c, anc) ==
    c.hidden \/ \E j \in Below(anc, BoundaryIn(anc)) : anc[j].hidden

\* A range slider, a checkbox, or a number input that is not the display of
\* another control.
IsRecognised(c) ==
    c.type \in {"range", "checkbox"} \/ (c.type = "number" /\ ~c.dataFor)

InExcludedRegion(anc) == \E j \in 1..Len(anc) : anc[j].id = "openai_settings"

\* The control c, of ancestors anc, is one the enumeration has to return.
Qualifies(c, anc) ==
    /\ IsRecognised(c)
    /\ ~HiddenBelowBoundary(c, anc)
    /\ ~InExcludedRegion(anc)
    /\ sanitizeId(c.id) # <<>>
    /\ TitleText(getTitleParent([c EXCEPT !.ancestors = anc])) # <<>>

QualifyingControls ==
    {i \in 1..Len(controls) : Qualifies(controls[i], AncestorsOf(i))}

\* The parameters params are those of the controls qualifying, in document
\* order, and the suggestion list has an entry for each.
ExactlyQualifying(params, qualifying) ==
    /\ ControlsOf(params) = qualifying
    /\ \A k \in 1..Len(params) :
           /\ params[k].id # <<>>
           /\ params[k].name # <<>>
           /\ \A l \in 1..(k - 1) : params[l].control < params[k].control
    /\ \A i \in 1..Len(controls) :
           InExcludedRegion(AncestorsOf(i)) => i \notin qualifying
    /\ last.cmd = "enumProvider" => Len(last.list) = Cardinality(qualifying)

\* C7: the enumeration returns one parameter for each control that is a
\* recognised input, visible, outside the excluded region, and has a non-empty
\* sanitized id and a non-empty name, and for no other; in document order;
\* each with a non-empty id and name; and the suggestion list has one entry
\* for each of them.
C7_ExactlyTheQualifyingControls == ExactlyQualifying(Params, QualifyingControls)

\* Of two controls, the one inside the excluded region is not listed.
C7_Witness ==
    /\ last.cmd = "enumProvider"
    /\ Len(controls) = 2
    /\ Len(last.list) = 1
    /\ \E i \in 1..2 :
           /\ InExcludedRegion(AncestorsOf(i))
           /\ IsRecognised(controls[i])
           /\ ~HiddenAnywhere(controls[i], AncestorsOf(i))

\* None of the controls in the set enumerated is hidden or has a hidden
\* ancestor.
NoneHiddenAnywhere(enumerated) ==
    \A i \in 1..Len(controls) :
        HiddenAnywhere(controls[i], AncestorsOf(i)) => i \notin enumerated

\* None of the controls in the set enumerated is hidden or has a hidden
\* ancestor below the boundary container.
NoneHiddenBelowBoundary(enumerated) ==
    \A i \in 1..Len(controls) :
        HiddenBelowBoundary(controls[i], AncestorsOf(i)) => i \notin enumerated

\* C8 as stated: a control that is hidden, or has a hidden ancestor at any
\* level, is not enumerated.
C8_HiddenAnywhereExcluded == NoneHiddenAnywhere(EnumeratedControls)

\* C8: a control that is hidden, or has a hidden ancestor at any level below
\* the boundary container #ai_response_configuration (at any level at all
\* when it is not inside that container), is not enumerated; the boundary
\* container and the ancestors above it are not looked at.
C8_HiddenBelowBoundaryExcluded == NoneHiddenBelowBoundary(EnumeratedControls)

\* A slider whose third ancestor is the nearest hidden one is not listed,
\* next to a control that is.
C8_Witness ==
    /\ last.cmd = "enumProvider"
    /\ Len(last.list) = 1
    /\ \E i \in 1..Len(controls) :
           /\ IsRecognised(controls[i])
           /\ ~controls[i].hidden
           /\ ~AncestorsOf(i)[1].hidden
           /\ ~AncestorsOf(i)[2].hidden
           /\ AncestorsOf(i)[3].hidden
           /\ BoundaryIn(AncestorsOf(i)) > 3
           /\ i \notin EnumeratedControls

=============================================================================
